---------------------------- MODULE Spec2Model ----------------------------
(***************************************************************************)
(* uvbump: version bumping for pyproject.toml backed by a git repository.  *)
(*                                                                         *)
(* A version string is a sequence of tokens: every decimal digit is a      *)
(* token of its own, "." is a token, and a run of letters ("a", "alpha",   *)
(* "rc", "dev", "invalid") is one token.  Parsing and printing work on     *)
(* these sequences, so "1.0.0alpha01" and "1.0.0a1" are different strings  *)
(* of the same version.                                                    *)
(***************************************************************************)
EXTENDS Integers, Sequences, FiniteSets, TLC

VARIABLES
    isRepo,         \* the working directory holds a git repository
    wt,             \* pyproject.toml in the working tree
    idx,            \* pyproject.toml in the index
    head,           \* pyproject.toml in the tree of the HEAD commit
    otherUnstaged,  \* a tracked file other than the manifest differs from the index
    otherStaged,    \* the index differs from HEAD on a file other than the manifest
    commits,        \* messages of the commits made on top of the initial one
    tags,           \* the tags: [name, at], at the number of commits below the tagged one
    call,           \* the last update_version invocation: inputs, state before, outcome
    probe           \* input and output of a directly applied pure function

vars == <<isRepo, wt, idx, head, otherUnstaged, otherStaged, commits, tags, call, probe>>

world == <<isRepo, wt, idx, head, otherUnstaged, otherStaged, commits, tags>>

-----------------------------------------------------------------------------
(* Bounds *)

\* version numbers of the enumerated input strings range over 0..MaxNum
MaxNum == 1

\* invocations that would make the history longer than MaxCommits are left out
MaxCommits == 2

-----------------------------------------------------------------------------
(* Strings *)

Digits == <<"0", "1", "2", "3", "4", "5", "6", "7", "8", "9">>

IsDigit(c) == \E i \in 1..10 : Digits[i] = c

DigitVal(c) == (CHOOSE i \in 1..10 : Digits[i] = c) - 1

\* str(n) of a non-negative integer
RECURSIVE IntStr(_)
IntStr(n) == IF n < 10 THEN <<Digits[n + 1]>>
             ELSE IntStr(n \div 10) \o <<Digits[(n % 10) + 1]>>

\* int(s) of a non-empty run of digits (leading zeros are dropped)
RECURSIVE IntVal(_)
IntVal(s) == IF Len(s) = 0 THEN 0
             ELSE 10 * IntVal(SubSeq(s, 1, Len(s) - 1)) + DigitVal(s[Len(s)])

\* the first position at or after i of s that holds no digit
RECURSIVE DigitsEnd(_, _)
DigitsEnd(s, i) == IF i <= Len(s) /\ IsDigit(s[i]) THEN DigitsEnd(s, i + 1) ELSE i

\* ".".join(str(x) for x in release)
RECURSIVE JoinDots(_)
JoinDots(r) == IF Len(r) = 0 THEN <<>>
               ELSE IF Len(r) = 1 THEN IntStr(r[1])
               ELSE IntStr(r[1]) \o <<".">> \o JoinDots(Tail(r))

-----------------------------------------------------------------------------
(* packaging.version.Version, restricted to release, pre and dev segments *)

NoPre == [l |-> "", n |-> 0]
NoDev == -1

\* the spellings of a pre-release label and the letter each normalises to
PreSpellings == {"a", "alpha", "b", "beta", "rc", "c", "pre", "preview"}

NormLabel(w) == CASE w \in {"a", "alpha"} -> "a"
                  [] w \in {"b", "beta"} -> "b"
                  [] OTHER -> "rc"

NoVersion == [release |-> <<>>, pre |-> NoPre, dev |-> NoDev]

\* release segments from position i on: [release, next]; next = 0 when no number is at i
RECURSIVE ParseRelease(_, _, _)
ParseRelease(s, i, acc) ==
    LET j == DigitsEnd(s, i) IN
    IF j = i THEN [release |-> acc, next |-> 0]
    ELSE LET acc2 == Append(acc, IntVal(SubSeq(s, i, j - 1))) IN
         IF j + 1 <= Len(s) /\ s[j] = "." /\ IsDigit(s[j + 1])
         THEN ParseRelease(s, j + 1, acc2)
         ELSE [release |-> acc2, next |-> j]

\* the number at position i, 0 when none is written: [n, next]
TakeNum(s, i) ==
    [n |-> IF DigitsEnd(s, i) = i THEN 0 ELSE IntVal(SubSeq(s, i, DigitsEnd(s, i) - 1)),
     next |-> DigitsEnd(s, i)]

InvalidVersion == [ok |-> FALSE, v |-> NoVersion]

\* the string must end after the last segment
ParseEnd(s, release, pre, d) ==
    IF d.next = Len(s) + 1
    THEN [ok |-> TRUE, v |-> [release |-> release, pre |-> pre, dev |-> d.n]]
    ELSE InvalidVersion

\* the dev segment, from position i on
ParseDev(s, release, pre, i) ==
    IF i + 1 <= Len(s) /\ s[i] = "." /\ s[i + 1] = "dev"
    THEN ParseEnd(s, release, pre, TakeNum(s, i + 2))
    ELSE ParseEnd(s, release, pre, [n |-> NoDev, next |-> i])

ParsePreNum(s, release, l, num) == ParseDev(s, release, [l |-> l, n |-> num.n], num.next)

\* the pre segment, after the release r
ParsePre(s, r) ==
    IF r.next = 0 THEN InvalidVersion
    ELSE IF r.next <= Len(s) /\ s[r.next] \in PreSpellings
    THEN ParsePreNum(s, r.release, NormLabel(s[r.next]), TakeNum(s, r.next + 1))
    ELSE ParseDev(s, r.release, NoPre, r.next)

\* Version(s): [ok, v].  Accepted: N(.N)*[{a|b|rc|..}[N]][.dev[N]]
ParseVersion(s) == ParsePre(s, ParseRelease(s, 1, <<>>))

\* Version.base_version
base_version(v) == JoinDots(v.release)

\* str(Version)
VersionStr(v) ==
    JoinDots(v.release)
    \o (IF v.pre = NoPre THEN <<>> ELSE <<v.pre.l>> \o IntStr(v.pre.n))
    \o (IF v.dev = NoDev THEN <<>> ELSE <<".", "dev">> \o IntStr(v.dev))

major(v) == v.release[1]
minor(v) == IF Len(v.release) >= 2 THEN v.release[2] ELSE 0
micro(v) == IF Len(v.release) >= 3 THEN v.release[3] ELSE 0

is_prerelease(v) == v.dev # NoDev \/ v.pre # NoPre

\* the release with its trailing zeros dropped, as _cmpkey compares it
RECURSIVE StripZeros(_)
StripZeros(r) == IF Len(r) > 0 /\ r[Len(r)] = 0
                 THEN StripZeros(SubSeq(r, 1, Len(r) - 1)) ELSE r

\* tuple comparison of two sequences of integers: -1, 0 or 1
RECURSIVE CmpSeq(_, _)
CmpSeq(a, b) ==
    IF Len(a) = 0 /\ Len(b) = 0 THEN 0
    ELSE IF Len(a) = 0 THEN -1
    ELSE IF Len(b) = 0 THEN 1
    ELSE IF a[1] < b[1] THEN -1
    ELSE IF a[1] > b[1] THEN 1
    ELSE CmpSeq(Tail(a), Tail(b))

LabelRank(l) == CASE l = "a" -> 1 [] l = "b" -> 2 [] OTHER -> 3

\* the pre part of _cmpkey: a dev release without a pre segment sorts before
\* every pre-release (-Infinity), a version without a pre segment after them
PreKey(v) == IF v.pre = NoPre /\ v.dev # NoDev THEN <<0, 0>>
             ELSE IF v.pre = NoPre THEN <<4, 0>>
             ELSE <<LabelRank(v.pre.l), v.pre.n>>

\* the dev part of _cmpkey: no dev segment sorts after every dev segment
DevKey(v) == IF v.dev = NoDev THEN <<1, 0>> ELSE <<0, v.dev>>

\* comparison of two versions by _cmpkey: -1, 0 or 1
VersionCmp(a, b) ==
    LET r == CmpSeq(StripZeros(a.release), StripZeros(b.release))
        p == CmpSeq(PreKey(a), PreKey(b))
    IN  IF r # 0 THEN r ELSE IF p # 0 THEN p ELSE CmpSeq(DevKey(a), DevKey(b))

\* mutant: the progression check written with < for <=
VersionLE_Strict(a, b) == VersionCmp(a, b) < 0

\* a <= b
VersionLE(a, b) == VersionCmp(a, b) <= 0

-----------------------------------------------------------------------------
(* _core.py *)

\* the error an operation ends with; NoError when it returns
NoError == "none"

\* bump_version's and validate_version's answer
Ok(v) == [err |-> NoError, v |-> v]
Raise(e) == [err |-> e, v |-> NoVersion]

validate_version(version_str) ==
    IF ParseVersion(version_str).ok THEN Ok(ParseVersion(version_str).v)
    ELSE Raise("InvalidVersionFormat")

\* Version(f"...") of a string the code formats itself
VersionOf(s) == ParseVersion(s).v

\* mutant: the minor bump keeps the patch number
bump_version_MinorKeepsPatch(current, bump_type) ==
    IF bump_type = <<"major">>
    THEN Ok(VersionOf(IntStr(major(current) + 1) \o <<".", "0", ".", "0">>))
    ELSE IF bump_type = <<"minor">>
    THEN Ok(VersionOf(IntStr(major(current)) \o <<".">> \o IntStr(minor(current) + 1)
                      \o <<".">> \o IntStr(micro(current))))
    ELSE IF bump_type = <<"patch">>
    THEN Ok(VersionOf(IntStr(major(current)) \o <<".">> \o IntStr(minor(current))
                      \o <<".">> \o IntStr(micro(current) + 1)))
    ELSE IF bump_type = <<"bump">>
    THEN IF is_prerelease(current)
         THEN IF current.pre # NoPre
              THEN Ok(VersionOf(base_version(current) \o <<current.pre.l>>
                                \o IntStr(current.pre.n + 1)))
              ELSE Raise("MissingPrereleaseNumber")
         ELSE Ok(VersionOf(IntStr(major(current)) \o <<".">> \o IntStr(minor(current))
                           \o <<".">> \o IntStr(micro(current) + 1)))
    ELSE Raise("UnknownBumpType")

bump_version(current, bump_type) ==
    IF bump_type = <<"major">>
    THEN Ok(VersionOf(IntStr(major(current) + 1) \o <<".", "0", ".", "0">>))
    ELSE IF bump_type = <<"minor">>
    THEN Ok(VersionOf(IntStr(major(current)) \o <<".">> \o IntStr(minor(current) + 1)
                      \o <<".", "0">>))
    ELSE IF bump_type = <<"patch">>
    THEN Ok(VersionOf(IntStr(major(current)) \o <<".">> \o IntStr(minor(current))
                      \o <<".">> \o IntStr(micro(current) + 1)))
    ELSE IF bump_type = <<"bump">>
    THEN IF is_prerelease(current)
         THEN IF current.pre # NoPre
              THEN Ok(VersionOf(base_version(current) \o <<current.pre.l>>
                                \o IntStr(current.pre.n + 1)))
              ELSE Raise("MissingPrereleaseNumber")
         ELSE Ok(VersionOf(IntStr(major(current)) \o <<".">> \o IntStr(minor(current))
                           \o <<".">> \o IntStr(micro(current) + 1)))
    ELSE Raise("UnknownBumpType")

\* pyproject.toml: absent, without project.version, or holding a version string
Absent == [kind |-> "absent", version |-> <<>>]
NoVersionField == [kind |-> "noversion", version |-> <<>>]
Manifest(s) == [kind |-> "file", version |-> s]

\* [err, version]: data["project"]["version"] of the file in the working tree
load_pyproject_toml(W) ==
    IF W.wt.kind = "absent" THEN [err |-> "ManifestNotFound", version |-> <<>>]
    ELSE IF W.wt.kind = "noversion" THEN [err |-> "VersionFieldMissing", version |-> <<>>]
    ELSE [err |-> NoError, version |-> W.wt.version]

\* the file rewritten with data["project"]["version"] = new_version_str
save_pyproject_toml(W, new_version_str) == [W EXCEPT !.wt = Manifest(new_version_str)]

\* git diff: a tracked file differs from the index
WorkingTreeDiff(W) == (W.idx.kind # "absent" /\ W.idx # W.wt) \/ W.otherUnstaged

\* git diff --cached, repo.index.diff("HEAD"): the index differs from HEAD
IndexDiff(W) == W.idx # W.head \/ W.otherStaged

\* repo.is_dirty(untracked_files=False): index and working_tree keep their
\* default True, so either difference makes the repository dirty
is_dirty(W) == IndexDiff(W) \/ WorkingTreeDiff(W)

check_git_status(W) ==
    IF is_dirty(W) THEN "UnstagedChanges"
    ELSE IF IndexDiff(W) THEN "StagedChanges"
    ELSE NoError

\* mutant: the rewritten manifest is not staged
index_add_Nothing(W) == W

\* repo.index.add([pyproject_path])
index_add(W) == [W EXCEPT !.idx = W.wt]

\* repo.index.commit(message): the whole index becomes the new HEAD
index_commit(W, message) ==
    [W EXCEPT !.head = W.idx, !.otherStaged = FALSE, !.commits = Append(W.commits, message)]

\* mutant: the test flag is ignored
TagName_AlwaysV(test_tag, new_version_str) == <<"v">> \o new_version_str

TagName(test_tag, new_version_str) ==
    (IF test_tag THEN <<"test-">> ELSE <<"v">>) \o new_version_str

NoInfo == [old_version |-> <<>>, new_version |-> <<>>, commit_message |-> <<>>, tag |-> <<>>]

\* what an invocation leaves: [err, info, W, cur, new] with W the state after it,
\* cur and new the parsed current and resolved new version (NoVersion when not
\* reached)
Fail(W, e, cur, new) == [err |-> e, info |-> NoInfo, W |-> W, cur |-> cur, new |-> new]

TagNames(W) == {t.name : t \in W.tags}

\* repo.create_tag(tag): a tag on HEAD; git refuses a tag name that exists
create_tag(W, info, cur, new) ==
    IF info.tag \in TagNames(W)
    THEN Fail(W, "TagExists", cur, new)
    ELSE [err |-> NoError, info |-> info,
          W |-> [W EXCEPT !.tags = W.tags \cup {[name |-> info.tag, at |-> Len(W.commits)]}],
          cur |-> cur, new |-> new]

\* the not dry_run block of update_version
Mutate(W, info, cur, new) ==
    create_tag(index_commit(index_add(save_pyproject_toml(W, info.new_version)),
                            info.commit_message),
               info, cur, new)

VersionInfo(old_version, new_version_str, test_tag) ==
    [old_version |-> old_version, new_version |-> new_version_str,
     commit_message |-> new_version_str, tag |-> TagName(test_tag, new_version_str)]

\* mutant: dry_run is ignored
Prepare_IgnoreDryRun(W, old_version, cur, new, test_tag, dry_run) ==
    Mutate(W, VersionInfo(old_version, VersionStr(new), test_tag), cur, new)

\* update_version from "Prepare version info" on
Prepare(W, old_version, cur, new, test_tag, dry_run) ==
    IF dry_run
    THEN [err |-> NoError, info |-> VersionInfo(old_version, VersionStr(new), test_tag),
          W |-> W, cur |-> cur, new |-> new]
    ELSE Mutate(W, VersionInfo(old_version, VersionStr(new), test_tag), cur, new)

\* mutant: the manifest is written before the repository is checked
CheckRepository_WriteFirst(W, old_version, cur, new, test_tag, dry_run) ==
    IF ~W.isRepo
    THEN Fail(IF dry_run THEN W ELSE save_pyproject_toml(W, VersionStr(new)),
              "NotARepository", cur, new)
    ELSE IF check_git_status(W) # NoError
    THEN Fail(IF dry_run THEN W ELSE save_pyproject_toml(W, VersionStr(new)),
              check_git_status(W), cur, new)
    ELSE Prepare(W, old_version, cur, new, test_tag, dry_run)

\* mutant: a dry run skips the cleanliness check
CheckRepository_SkipOnDryRun(W, old_version, cur, new, test_tag, dry_run) ==
    IF ~W.isRepo THEN Fail(W, "NotARepository", cur, new)
    ELSE IF ~dry_run /\ check_git_status(W) # NoError
    THEN Fail(W, check_git_status(W), cur, new)
    ELSE Prepare(W, old_version, cur, new, test_tag, dry_run)

\* update_version from "Check git repository" on
CheckRepository(W, old_version, cur, new, test_tag, dry_run) ==
    IF ~W.isRepo THEN Fail(W, "NotARepository", cur, new)
    ELSE IF check_git_status(W) # NoError THEN Fail(W, check_git_status(W), cur, new)
    ELSE Prepare(W, old_version, cur, new, test_tag, dry_run)

\* mutant: the repository is opened before the progression check
CheckProgression_RepoFirst(W, old_version, cur, new_version_obj, test_tag, dry_run) ==
    IF new_version_obj.err # NoError THEN Fail(W, new_version_obj.err, cur, NoVersion)
    ELSE IF ~W.isRepo THEN Fail(W, "NotARepository", cur, new_version_obj.v)
    ELSE IF VersionLE(new_version_obj.v, cur)
    THEN Fail(W, "VersionNotAdvancing", cur, new_version_obj.v)
    ELSE CheckRepository(W, old_version, cur, new_version_obj.v, test_tag, dry_run)

\* update_version from "Check version progression" on
CheckProgression(W, old_version, cur, new_version_obj, test_tag, dry_run) ==
    IF new_version_obj.err # NoError THEN Fail(W, new_version_obj.err, cur, NoVersion)
    ELSE IF VersionLE(new_version_obj.v, cur)
    THEN Fail(W, "VersionNotAdvancing", cur, new_version_obj.v)
    ELSE CheckRepository(W, old_version, cur, new_version_obj.v, test_tag, dry_run)

\* update_version from "Validate new version" on
ResolveNew(W, old_version, current_version, new_version, test_tag, dry_run) ==
    IF current_version.err # NoError
    THEN Fail(W, current_version.err, NoVersion, NoVersion)
    ELSE CheckProgression(W, old_version, current_version.v,
                          IF new_version \in {<<"major">>, <<"minor">>, <<"patch">>, <<"bump">>}
                          THEN bump_version(current_version.v, new_version)
                          ELSE validate_version(new_version),
                          test_tag, dry_run)

\* update_version from "Load and validate current version" on
LoadCurrent(W, data, new_version, test_tag, dry_run) ==
    IF data.err # NoError THEN Fail(W, data.err, NoVersion, NoVersion)
    ELSE ResolveNew(W, data.version, validate_version(data.version), new_version,
                    test_tag, dry_run)

update_version(W, new_version, test_tag, dry_run) ==
    LoadCurrent(W, load_pyproject_toml(W), new_version, test_tag, dry_run)

-----------------------------------------------------------------------------
(* Inputs *)

Nums == 0..MaxNum

Keywords == {<<"major">>, <<"minor">>, <<"patch">>, <<"bump">>}

V100 == <<"1", ".", "0", ".", "0">>

\* project.version of the manifest an invocation sequence starts from
ManifestStrings ==
    {JoinDots(<<n, 0, 0>>) : n \in 1..MaxNum}
    \cup {V100 \o <<"a">> \o IntStr(n) : n \in 1..MaxNum}
    \cup {V100 \o <<".", "dev">> \o IntStr(n) : n \in 1..MaxNum}
    \cup {<<"1", ".", "0">>, V100 \o <<"alpha", "0", "1">>, <<"invalid">>}

Manifests == {Manifest(s) : s \in ManifestStrings} \cup {Absent, NoVersionField}

\* the version argument of the command line: the keywords, releases below, at
\* and above 1.0.0, pre-releases and a dev release of 1.0.0, a two-segment
\* release and a string that is no version
Requests ==
    Keywords
    \cup {<<"0", ".", "0", ".", "0">>, V100, <<"2", ".", "0", ".", "0">>,
          <<"1", ".", "0", ".", "1">>, <<"2", ".", "0">>,
          V100 \o <<"a", "0">>, V100 \o <<"a", "1">>, V100 \o <<"c", "1">>,
          V100 \o <<".", "dev", "1">>, <<"invalid">>}

\* an older manifest, for an index or a HEAD that differs from the working tree
OldManifest == Manifest(<<"0", ".", "9", ".", "0">>)

\* the tag sets a repository starts with: none, or the tag a patch bump of 1.0.0 creates
InitTags == {{}, {[name |-> TagName(FALSE, <<"1", ".", "0", ".", "1">>), at |-> 0]}}

\* the versions and bump types bump_version is applied to directly
BumpVersions ==
    [release : [1..3 -> Nums] \cup [1..2 -> Nums],
     pre : {NoPre} \cup [l : {"a", "b", "rc"}, n : Nums],
     dev : {NoDev} \cup Nums]

BumpTypes == Keywords \cup {<<"auto">>, <<"invalid">>}

-----------------------------------------------------------------------------
(* State machine *)

\* the repository and working tree as one value
CurW == [isRepo |-> isRepo, wt |-> wt, idx |-> idx, head |-> head,
         otherUnstaged |-> otherUnstaged, otherStaged |-> otherStaged,
         commits |-> commits, tags |-> tags]

SetW(W) ==
    /\ isRepo' = W.isRepo
    /\ wt' = W.wt
    /\ idx' = W.idx
    /\ head' = W.head
    /\ otherUnstaged' = W.otherUnstaged
    /\ otherStaged' = W.otherStaged
    /\ commits' = W.commits
    /\ tags' = W.tags

NoCall == [returned |-> FALSE, new_version |-> <<>>, test_tag |-> FALSE, dry_run |-> FALSE,
           pre |-> [isRepo |-> FALSE, wt |-> Absent, idx |-> Absent, head |-> Absent,
                    otherUnstaged |-> FALSE, otherStaged |-> FALSE,
                    commits |-> <<>>, tags |-> {}],
           err |-> NoError, info |-> NoInfo, cur |-> NoVersion, new |-> NoVersion]

NoProbe == [current |-> NoVersion, bump_type |-> <<>>, applied |-> FALSE,
            out |-> Raise(NoError)]

\* any working directory: no repository, or a repository whose index and HEAD
\* hold the manifest, an older one or none, with or without other changes
Init ==
    /\ wt \in Manifests
    /\ isRepo \in BOOLEAN
    /\ IF isRepo
       THEN /\ idx \in {wt, Absent, OldManifest}
            /\ head \in {idx, OldManifest}
            /\ otherUnstaged \in BOOLEAN
            /\ otherStaged \in BOOLEAN
            /\ tags \in InitTags
       ELSE /\ idx = Absent
            /\ head = Absent
            /\ otherUnstaged = FALSE
            /\ otherStaged = FALSE
            /\ tags = {}
    /\ commits = <<>>
    /\ call = NoCall
    /\ probe = NoProbe

\* main() up to the return or raise of update_version(args.version, args.test,
\* args.dry_run)
UpdateVersion ==
    /\ ~call.returned
    /\ \E new_version \in Requests, test_tag \in BOOLEAN, dry_run \in BOOLEAN :
          \E r \in {update_version(CurW, new_version, test_tag, dry_run)} :
             /\ Len(r.W.commits) <= MaxCommits
             /\ SetW(r.W)
             /\ call' = [returned |-> TRUE, new_version |-> new_version,
                         test_tag |-> test_tag, dry_run |-> dry_run, pre |-> CurW,
                         err |-> r.err, info |-> r.info, cur |-> r.cur, new |-> r.new]
    /\ UNCHANGED probe

\* main() prints the result or the error and the process exits
Exit ==
    /\ call.returned
    /\ call' = NoCall
    /\ UNCHANGED <<world, probe>>

Next == UpdateVersion \/ Exit

Spec == Init /\ [][Next]_vars

\* bump_version on its own
InitBump ==
    /\ isRepo = FALSE
    /\ wt = Absent
    /\ idx = Absent
    /\ head = Absent
    /\ otherUnstaged = FALSE
    /\ otherStaged = FALSE
    /\ commits = <<>>
    /\ tags = {}
    /\ call = NoCall
    /\ \E v \in BumpVersions, t \in BumpTypes :
          probe = [current |-> v, bump_type |-> t, applied |-> FALSE, out |-> Raise(NoError)]

ApplyBump ==
    /\ ~probe.applied
    /\ probe' = [probe EXCEPT !.applied = TRUE,
                              !.out = bump_version(probe.current, probe.bump_type)]
    /\ UNCHANGED <<world, call>>

NextBump == ApplyBump

SpecBump == InitBump /\ [][NextBump]_vars

-----------------------------------------------------------------------------
(* Properties *)

\* the errors update_version raises before its first write
ValidationErrors ==
    {"ManifestNotFound", "VersionFieldMissing", "InvalidVersionFormat",
     "MissingPrereleaseNumber", "VersionNotAdvancing", "NotARepository",
     "UnstagedChanges", "StagedChanges"}

\* the tag prefix the test flag selects
Prefix(test_tag) == IF test_tag THEN <<"test-">> ELSE <<"v">>

\* the written manifest, the new commit on top of the old history and the new
\* tag on that commit all exist
AllDone(c, W) ==
    /\ c.new # NoVersion
    /\ W.wt = Manifest(VersionStr(c.new))
    /\ W.commits = Append(c.pre.commits, VersionStr(c.new))
    /\ [name |-> Prefix(c.test_tag) \o VersionStr(c.new), at |-> Len(W.commits)] \in W.tags

\* manifest, history and tags are as before the invocation
NothingDone(c, W) ==
    /\ W.wt = c.pre.wt
    /\ W.commits = c.pre.commits
    /\ W.tags = c.pre.tags

\* C1: after a non-dry-run invocation, returned or failed, either the manifest
\* write, the commit and the tag have all happened or none of them has.
C1_AllOrNothing ==
    (call.returned /\ ~call.dry_run) => (AllDone(call, CurW) \/ NothingDone(call, CurW))

\* C2: an invocation that fails with a validation error leaves the manifest, the
\* index, HEAD, the history and the tags as they were, dry run or not.
C2_ValidationBeforeMutation ==
    (call.returned /\ call.err \in ValidationErrors) => CurW = call.pre

C2_Witness ==
    /\ call.returned
    /\ ~call.dry_run
    /\ call.err = "VersionNotAdvancing"
    /\ ~is_dirty(call.pre)
    /\ call.pre.isRepo

\* C3: a dry run changes nothing, and when it returns its result carries the
\* computed new version, that version as commit message, and the prefixed tag.
C3_DryRunChangesNothing ==
    (call.returned /\ call.dry_run) =>
        /\ CurW = call.pre
        /\ call.err \in ValidationErrors \cup {NoError}
        /\ call.err = NoError =>
              /\ call.info.new_version = VersionStr(call.new)
              /\ ParseVersion(call.info.new_version).ok
              /\ VersionCmp(ParseVersion(call.info.new_version).v, call.cur) = 1
              /\ call.info.commit_message = call.info.new_version
              /\ call.info.tag = Prefix(call.test_tag) \o call.info.new_version

C3_Witness ==
    /\ call.returned
    /\ call.dry_run
    /\ call.err = NoError
    /\ call.new_version = <<"patch">>
    /\ call.pre.wt = Manifest(V100)
    /\ call.info.new_version = <<"1", ".", "0", ".", "1">>

\* C4: after a successful non-dry-run invocation the manifest holds the result's
\* new version, the head commit's message is that string, the tag prefix + that
\* string exists on the head commit, and the result's old version is the string
\* the manifest held before.
C4_SuccessPostcondition ==
    (call.returned /\ ~call.dry_run /\ call.err = NoError) =>
        /\ wt = Manifest(call.info.new_version)
        /\ Len(commits) = Len(call.pre.commits) + 1
        /\ commits[Len(commits)] = call.info.new_version
        /\ head = wt
        /\ call.info.tag = Prefix(call.test_tag) \o call.info.new_version
        /\ [name |-> call.info.tag, at |-> Len(commits)] \in tags
        /\ call.info.old_version = call.pre.wt.version
        /\ call.info.new_version = VersionStr(call.new)

C4_Witness ==
    /\ call.returned
    /\ ~call.dry_run
    /\ call.err = NoError
    /\ call.test_tag
    /\ call.pre.wt = Manifest(V100 \o <<"alpha", "0", "1">>)
    /\ wt = Manifest(V100 \o <<"a", "2">>)

\* the invocation got as far as the repository guard
ReachedGuard(c) == c.err \in {NoError, "TagExists", "UnstagedChanges", "StagedChanges"}

\* C5: the guard reports unstaged changes when there are any, staged changes
\* when there are only staged ones, and nothing when there are neither.
C5_GuardDistinguishes ==
    (call.returned /\ ReachedGuard(call)) =>
        /\ WorkingTreeDiff(call.pre) => call.err = "UnstagedChanges"
        /\ (~WorkingTreeDiff(call.pre) /\ IndexDiff(call.pre)) => call.err = "StagedChanges"
        /\ (~WorkingTreeDiff(call.pre) /\ ~IndexDiff(call.pre)) =>
              call.err \notin {"UnstagedChanges", "StagedChanges"}

\* (major, minor, patch) of a version
Triple(v) == <<major(v), minor(v), micro(v)>>

\* a is strictly greater than b in the ordering of versions without a dev
\* segment: numeric on (major, minor, patch), then a release above its
\* pre-releases, then pre-releases by (label, number)
StrictlyGreater(a, b) ==
    \/ CmpSeq(Triple(a), Triple(b)) = 1
    \/ /\ CmpSeq(Triple(a), Triple(b)) = 0
       /\ \/ a.pre = NoPre /\ b.pre # NoPre
          \/ /\ a.pre # NoPre
             /\ b.pre # NoPre
             /\ \/ LabelRank(a.pre.l) > LabelRank(b.pre.l)
                \/ a.pre.l = b.pre.l /\ a.pre.n > b.pre.n

\* the invocation got as far as the progression check
ReachedProgression(c) == c.new # NoVersion

\* C6: an invocation that reaches the progression check fails with the
\* version-not-advancing error exactly when the resolved new version is not
\* strictly greater than the current one (versions of major.minor.patch with an
\* optional pre-release).
C6_ProgressionGuard ==
    (call.returned /\ ReachedProgression(call)
        /\ call.cur.dev = NoDev /\ call.new.dev = NoDev) =>
        (call.err = "VersionNotAdvancing" <=> ~StrictlyGreater(call.new, call.cur))

C6_Witness ==
    /\ call.returned
    /\ call.err = "VersionNotAdvancing"
    /\ call.pre.wt = Manifest(V100)
    /\ call.new_version = V100 \o <<"a", "1">>

\* a release requested over its own pre-release is accepted
C6_WitnessAccepted ==
    /\ call.returned
    /\ call.err = NoError
    /\ call.pre.wt = Manifest(V100 \o <<"a", "1">>)
    /\ call.new_version = V100

Release3(a, b, c) == [release |-> <<a, b, c>>, pre |-> NoPre, dev |-> NoDev]

\* the table for major, minor and patch, and the error for an unknown keyword
BumpTableFixed(cur, type, out) ==
    /\ type = <<"major">> => out = Ok(Release3(major(cur) + 1, 0, 0))
    /\ type = <<"minor">> => out = Ok(Release3(major(cur), minor(cur) + 1, 0))
    /\ type = <<"patch">> => out = Ok(Release3(major(cur), minor(cur), micro(cur) + 1))
    /\ type \notin Keywords => out.err = "UnknownBumpType"

\* the pre-release number incremented, (major, minor, patch) and label kept
PreBumped(cur, out) ==
    /\ out.err = NoError
    /\ Triple(out.v) = Triple(cur)
    /\ out.v.pre = [l |-> cur.pre.l, n |-> cur.pre.n + 1]

\* C7 as stated: bump_version follows the table; "bump" increments the
\* pre-release number of a version that has a pre-release component and is the
\* patch bump of every other version.
C7_BumpTable ==
    probe.applied =>
        /\ BumpTableFixed(probe.current, probe.bump_type, probe.out)
        /\ probe.bump_type = <<"bump">> =>
              IF probe.current.pre # NoPre
              THEN PreBumped(probe.current, probe.out)
              ELSE probe.out = Ok(Release3(major(probe.current), minor(probe.current),
                                           micro(probe.current) + 1))

\* C7 amended: as C7, but "bump" of a dev release without a pre-release
\* component fails with the missing-pre-release-number error.
C7_BumpTableAmended ==
    probe.applied =>
        /\ BumpTableFixed(probe.current, probe.bump_type, probe.out)
        /\ probe.bump_type = <<"bump">> =>
              IF probe.current.pre # NoPre
              THEN PreBumped(probe.current, probe.out)
              ELSE IF probe.current.dev # NoDev
              THEN probe.out = Raise("MissingPrereleaseNumber")
              ELSE probe.out = Ok(Release3(major(probe.current), minor(probe.current),
                                           micro(probe.current) + 1))

C7_Witness ==
    /\ probe.applied
    /\ probe.bump_type = <<"bump">>
    /\ probe.current = [release |-> <<1, 0, 1>>, pre |-> NoPre, dev |-> 1]
    /\ probe.out.err = "MissingPrereleaseNumber"

\* the run of the same request from the same state with the other dry_run value
OtherRun(c) == update_version(c.pre, c.new_version, c.test_tag, ~c.dry_run)

\* C8: a dry run and a real run of the same request from the same state fail
\* with the same validation error, or both pass validation with the same current
\* and new version and, when both return, the same result; a dry run of a dirty
\* repository does not return.
C8_DryRunSameValidation ==
    call.returned =>
        LET other == OtherRun(call) IN
        /\ (call.err \in ValidationErrors \/ other.err \in ValidationErrors) =>
              call.err = other.err
        /\ (call.err \notin ValidationErrors) =>
              /\ other.cur = call.cur
              /\ other.new = call.new
              /\ (call.err = NoError /\ other.err = NoError) => other.info = call.info
        /\ (call.dry_run /\ (WorkingTreeDiff(call.pre) \/ IndexDiff(call.pre))) =>
              call.err # NoError

C8_Witness ==
    /\ call.returned
    /\ call.dry_run
    /\ call.pre.otherUnstaged
    /\ call.err = "UnstagedChanges"
    /\ OtherRun(call).err = "UnstagedChanges"

\* the requested version resolved against the current one
Resolved(cur, new_version) ==
    IF new_version \in Keywords THEN bump_version(cur, new_version)
    ELSE validate_version(new_version)

\* the error of the first step, in the order load manifest, parse current,
\* resolve requested, progression, open repository, cleanliness, whose
\* precondition W and new_version violate; "dirty" stands for either
\* cleanliness error
FirstViolated(W, new_version) ==
    IF W.wt.kind = "absent" THEN "ManifestNotFound"
    ELSE IF W.wt.kind = "noversion" THEN "VersionFieldMissing"
    ELSE LET cur == ParseVersion(W.wt.version)
             new == Resolved(cur.v, new_version)
         IN  IF ~cur.ok THEN "InvalidVersionFormat"
             ELSE IF new.err # NoError THEN new.err
             ELSE IF VersionCmp(new.v, cur.v) # 1 THEN "VersionNotAdvancing"
             ELSE IF ~W.isRepo THEN "NotARepository"
             ELSE IF WorkingTreeDiff(W) \/ IndexDiff(W) THEN "dirty"
             ELSE NoError

\* C9: the error of an invocation is that of the earliest violated step.
C9_FirstFailureWins ==
    call.returned =>
        LET first == FirstViolated(call.pre, call.new_version) IN
        CASE first = "dirty" -> call.err \in {"UnstagedChanges", "StagedChanges"}
          [] first = NoError -> call.err \in {NoError, "TagExists"}
          [] OTHER -> call.err = first

\* a non-advancing version is reported from a directory that is no repository
C9_Witness ==
    /\ call.returned
    /\ ~call.pre.isRepo
    /\ call.pre.wt = Manifest(V100)
    /\ call.new_version = V100
    /\ call.err = "VersionNotAdvancing"

\* manifest in working tree = index = HEAD, and no other change
CleanRepo(W) ==
    /\ W.isRepo
    /\ W.wt = W.idx
    /\ W.idx = W.head
    /\ ~W.otherUnstaged
    /\ ~W.otherStaged

\* C10: an invocation from a clean repository is not rejected by the repository
\* guard and leaves a clean repository; the manifest version is strictly greater
\* after a successful non-dry-run invocation and the manifest unchanged after a
\* dry run or a validation failure.
C10_CleanAfterEachInvocation ==
    (call.returned /\ CleanRepo(call.pre)) =>
        /\ CleanRepo(CurW)
        /\ call.err \notin {"UnstagedChanges", "StagedChanges"}
        /\ (call.err = NoError /\ ~call.dry_run) =>
              /\ wt.kind = "file"
              /\ ParseVersion(wt.version).ok
              /\ VersionCmp(ParseVersion(wt.version).v,
                            ParseVersion(call.pre.wt.version).v) = 1
        /\ (call.err \in ValidationErrors \/ (call.err = NoError /\ call.dry_run)) =>
              wt = call.pre.wt

\* a second successful invocation, on top of the tool's own earlier commit
C10_Witness ==
    /\ call.returned
    /\ CleanRepo(call.pre)
    /\ Len(call.pre.commits) = 1
    /\ call.pre.wt = Manifest(call.pre.commits[1])
    /\ call.err = NoError
    /\ ~call.dry_run
    /\ Len(commits) = 2

=============================================================================
